---- MODULE Spec2Model ----
(***************************************************************************)
(* Model of the example-calculator-mcp servers: the tool catalogs and the  *)
(* call-tool dispatchers of src/index.js, src/http-server.js and the two   *)
(* further HTTP variants (unnamed/part_000, unnamed/part_001).             *)
(*                                                                         *)
(* JavaScript values are records tagged by t:                              *)
(*   [t |-> "num", n, d]   the finite number n/d (d > 0, reduced)          *)
(*   [t |-> "nan"]         NaN                                             *)
(*   [t |-> "inf", s]      +Infinity (s = 1) or -Infinity (s = -1)         *)
(*   [t |-> "str", cs]     a string, cs its sequence of characters         *)
(*   [t |-> "null"], [t |-> "undefined"]                                   *)
(*   [t |-> "object", props]  an arguments mapping                         *)
(* Texts that leave a handler are TLA+ strings.  A finite number is only   *)
(* printed when its decimal expansion is finite (see Printable), which is  *)
(* where the text of a double is its exact decimal expansion.              *)
(***************************************************************************)
EXTENDS Integers, Sequences, FiniteSets, TLC

(* Bounds of the input universe. *)
MaxNum == 5

(***************************************************************************)
(* Characters the module cannot hold literally, written as escapes.        *)
(***************************************************************************)
TimesSign == "\\u00D7"
DivideSign == "\\u00F7"
RadicalSign == "\\u221A"

(***************************************************************************)
(* JavaScript values.                                                      *)
(***************************************************************************)
Abs(i) == IF i < 0 THEN 0 - i ELSE i

RECURSIVE Gcd(_, _)
Gcd(x, y) == IF y = 0 THEN x ELSE Gcd(y, x % y)

Rat(n, d) ==
  LET g == Gcd(Abs(n), Abs(d))
      s == IF d < 0 THEN -1 ELSE 1
  IN  [t |-> "num", n |-> (s * n) \div g, d |-> (s * d) \div g]

Num(i) == [t |-> "num", n |-> i, d |-> 1]
NaN == [t |-> "nan"]
Infinity(s) == [t |-> "inf", s |-> s]
Str(cs) == [t |-> "str", cs |-> cs]
Null == [t |-> "null"]
Undefined == [t |-> "undefined"]
Obj(props) == [t |-> "object", props |-> props]

(* args.f, or the f of a destructuring pattern: a missing property reads
   as undefined. *)
Get(args, f) == IF f \in DOMAIN args.props THEN args.props[f] ELSE Undefined

(***************************************************************************)
(* Number -> text (Number::toString, radix 10) and text -> Number          *)
(* (StringToNumber), character by character.                               *)
(***************************************************************************)
Digits == <<"0", "1", "2", "3", "4", "5", "6", "7", "8", "9">>
DigitChar(k) == Digits[k + 1]
IsDigit(c) == \E k \in 0..9 : Digits[k + 1] = c
DigitVal(c) == CHOOSE k \in 0..9 : Digits[k + 1] = c

RECURSIVE NatToChars(_)
NatToChars(n) ==
  IF n < 10 THEN <<DigitChar(n)>>
  ELSE Append(NatToChars(n \div 10), DigitChar(n % 10))

(* the digits after the decimal point of r/d, 0 <= r < d, by long division *)
RECURSIVE FracToChars(_, _)
FracToChars(r, d) ==
  IF r = 0 THEN <<>>
  ELSE <<DigitChar((r * 10) \div d)>> \o FracToChars((r * 10) % d, d)

RECURSIVE StripFactor(_, _)
StripFactor(d, p) == IF d % p = 0 THEN StripFactor(d \div p, p) ELSE d

(* n/d has a finite decimal expansion *)
FiniteDecimal(x) == StripFactor(StripFactor(x.d, 2), 5) = 1

(* the text of x is its plain decimal expansion: the expansion is finite and
   x is not small enough (below 10^-6) to be printed with an exponent *)
Printable(x) ==
  IF x.t # "num" THEN TRUE
  ELSE IF ~FiniteDecimal(x) THEN FALSE
  ELSE IF x.n = 0 THEN TRUE
  ELSE (x.d + Abs(x.n) - 1) \div Abs(x.n) <= 1000000

NumberToChars(x) ==
  CASE x.t = "nan" -> <<"N", "a", "N">>
    [] x.t = "inf" ->
         (IF x.s < 0 THEN <<"-">> ELSE <<>>)
           \o <<"I", "n", "f", "i", "n", "i", "t", "y">>
    [] x.t = "num" ->
         LET a == Abs(x.n) IN
         (IF x.n < 0 THEN <<"-">> ELSE <<>>)
           \o NatToChars(a \div x.d)
           \o (IF a % x.d = 0 THEN <<>> ELSE <<".">> \o FracToChars(a % x.d, x.d))

RECURSIVE CharsToNat(_)
CharsToNat(cs) ==
  IF cs = <<>> THEN 0
  ELSE 10 * CharsToNat(SubSeq(cs, 1, Len(cs) - 1)) + DigitVal(cs[Len(cs)])

AllDigits(cs) == cs # <<>> /\ \A i \in 1..Len(cs) : IsDigit(cs[i])

(* the empty string is 0, an optionally signed run of digits is that
   integer, everything else is NaN (the strings of the input universe carry
   no white space, decimal point, exponent or radix prefix) *)
StringToNumber(cs) ==
  IF cs = <<>> THEN Num(0)
  ELSE IF AllDigits(cs) THEN Num(CharsToNat(cs))
  ELSE IF cs[1] \in {"+", "-"} /\ AllDigits(Tail(cs))
       THEN Num((IF cs[1] = "-" THEN -1 ELSE 1) * CharsToNat(Tail(cs)))
  ELSE NaN

ToNumber(v) ==
  CASE v.t \in {"num", "nan", "inf"} -> v
    [] v.t = "undefined" -> NaN
    [] v.t = "null" -> Num(0)
    [] v.t = "str" -> StringToNumber(v.cs)

ToChars(v) ==
  CASE v.t \in {"num", "nan", "inf"} -> NumberToChars(v)
    [] v.t = "undefined" -> <<"u", "n", "d", "e", "f", "i", "n", "e", "d">>
    [] v.t = "null" -> <<"n", "u", "l", "l">>
    [] v.t = "str" -> v.cs

RECURSIVE Join(_)
Join(cs) == IF cs = <<>> THEN "" ELSE Head(cs) \o Join(Tail(cs))

(* ${v} in a template literal *)
JsToString(v) == Join(ToChars(v))

(***************************************************************************)
(* The arithmetic of the handlers.  Operands are what ToNumber yields for  *)
(* a JSON value: a finite number or NaN.                                   *)
(***************************************************************************)
NumAdd(x, y) ==
  IF x.t = "nan" \/ y.t = "nan" THEN NaN
  ELSE Rat(x.n * y.d + y.n * x.d, x.d * y.d)

NumSub(x, y) ==
  IF x.t = "nan" \/ y.t = "nan" THEN NaN
  ELSE Rat(x.n * y.d - y.n * x.d, x.d * y.d)

NumMul(x, y) ==
  IF x.t = "nan" \/ y.t = "nan" THEN NaN
  ELSE Rat(x.n * y.n, x.d * y.d)

NumDiv(x, y) ==
  IF x.t = "nan" \/ y.t = "nan" THEN NaN
  ELSE IF y.n = 0
       THEN (IF x.n = 0 THEN NaN ELSE Infinity(IF x.n < 0 THEN -1 ELSE 1))
  ELSE Rat(x.n * y.d, x.d * y.n)

(* a + b: a string operand makes it a concatenation *)
JsAdd(a, b) ==
  IF a.t = "str" \/ b.t = "str" THEN Str(ToChars(a) \o ToChars(b))
  ELSE NumAdd(ToNumber(a), ToNumber(b))

(* a - b mistyped as an addition of the two numbers *)
JsSubMutant(a, b) == NumAdd(ToNumber(a), ToNumber(b))

JsSub(a, b) == NumSub(ToNumber(a), ToNumber(b))
JsMul(a, b) == NumMul(ToNumber(a), ToNumber(b))
(* a / b with the operands exchanged *)
JsDivMutant(a, b) == NumDiv(ToNumber(b), ToNumber(a))

JsDiv(a, b) == NumDiv(ToNumber(a), ToNumber(b))

(* the guard comparing with the string "0" instead of the number 0 *)
StrictEqualsZeroMutant(v) == v.t = "str" /\ v.cs = <<"0">>

(* v === 0 *)
StrictEqualsZero(v) == v.t = "num" /\ v.n = 0

LessThanZeroMutant(v) == v.t = "num" /\ v.n < 0

(* v < 0 *)
LessThanZero(v) == LET x == ToNumber(v) IN x.t = "num" /\ x.n < 0

RECURSIVE IntPow(_, _)
IntPow(b, e) == IF e = 0 THEN 1 ELSE b * IntPow(b, e - 1)

(* Math.pow for integral exponents *)
NumPow(x, y) ==
  IF y.t = "nan" THEN NaN
  ELSE IF y.n = 0 THEN Num(1)
  ELSE IF x.t = "nan" THEN NaN
  ELSE IF y.n > 0 THEN Rat(IntPow(x.n, y.n), IntPow(x.d, y.n))
  ELSE IF x.n = 0 THEN Infinity(1)
  ELSE Rat(IntPow(x.d, 0 - y.n), IntPow(x.n, 0 - y.n))

(* Math.pow with its arguments exchanged *)
MathPowMutant(base, exponent) == NumPow(ToNumber(exponent), ToNumber(base))

MathPow(base, exponent) == NumPow(ToNumber(base), ToNumber(exponent))

IsSquare(k) == \E r \in 0..k : r * r = k
Isqrt(k) == CHOOSE r \in 0..k : r * r = k

(* Math.sqrt where the root is rational *)
NumSqrt(x) ==
  IF x.t = "nan" THEN NaN
  ELSE IF x.n < 0 THEN NaN
  ELSE Rat(Isqrt(x.n), Isqrt(x.d))

HasRationalRoot(x) ==
  IF x.t = "num" /\ x.n >= 0 THEN IsSquare(x.n) /\ IsSquare(x.d) ELSE TRUE

MathSqrt(number) == NumSqrt(ToNumber(number))

(***************************************************************************)
(* What a handler does: it returns a result or throws.                     *)
(***************************************************************************)
Return(text) ==
  [tag |-> "return", content |-> <<[type |-> "text", text |-> text]>>]

(* new McpError(code, message) *)
McpError(code, message) ==
  [tag |-> "throw", class |-> "McpError", code |-> code, message |-> message]

(* new Error(message) *)
Error(message) ==
  [tag |-> "throw", class |-> "Error", code |-> "none", message |-> message]

(* the TypeError of `const { f } = args` with args undefined *)
DestructureError(f) ==
  [tag |-> "throw", class |-> "TypeError", code |-> "none",
   message |-> "Cannot destructure property '" \o f
                 \o "' of 'args' as it is undefined."]

(* the TypeError of `args.f` with args undefined *)
ReadPropertyError(f) ==
  [tag |-> "throw", class |-> "TypeError", code |-> "none",
   message |-> "Cannot read properties of undefined (reading '" \o f \o "')"]

(***************************************************************************)
(* The CallToolRequestSchema handler of src/index.js; the handlers of      *)
(* src/http-server.js and unnamed/part_000 are the same text.              *)
(***************************************************************************)
SwitchAdd(args) ==
  IF args = Undefined THEN DestructureError("a")
  ELSE LET a == Get(args, "a")
           b == Get(args, "b")
           result == JsAdd(a, b)
       IN  Return(JsToString(a) \o " + " \o JsToString(b)
                    \o " = " \o JsToString(result))

SwitchSubtract(args) ==
  IF args = Undefined THEN DestructureError("a")
  ELSE LET a == Get(args, "a")
           b == Get(args, "b")
           result == JsSub(a, b)
       IN  Return(JsToString(a) \o " - " \o JsToString(b)
                    \o " = " \o JsToString(result))

SwitchMultiply(args) ==
  IF args = Undefined THEN DestructureError("a")
  ELSE LET a == Get(args, "a")
           b == Get(args, "b")
           result == JsMul(a, b)
       IN  Return(JsToString(a) \o " " \o TimesSign \o " " \o JsToString(b)
                    \o " = " \o JsToString(result))

SwitchDivide(args) ==
  IF args = Undefined THEN DestructureError("a")
  ELSE LET a == Get(args, "a")
           b == Get(args, "b")
           result == JsDiv(a, b)
       IN  IF StrictEqualsZero(b)
           THEN McpError("InvalidRequest", "Cannot divide by zero")
           ELSE Return(JsToString(a) \o " " \o DivideSign \o " "
                         \o JsToString(b) \o " = " \o JsToString(result))

SwitchPower(args) ==
  IF args = Undefined THEN DestructureError("base")
  ELSE LET base == Get(args, "base")
           exponent == Get(args, "exponent")
           result == MathPow(base, exponent)
       IN  Return(JsToString(base) \o "^" \o JsToString(exponent)
                    \o " = " \o JsToString(result))

SwitchSqrt(args) ==
  IF args = Undefined THEN DestructureError("number")
  ELSE LET number == Get(args, "number")
           result == MathSqrt(number)
       IN  IF LessThanZero(number)
           THEN McpError("InvalidRequest",
                         "Cannot calculate square root of negative number")
           ELSE Return(RadicalSign \o JsToString(number)
                         \o " = " \o JsToString(result))

SwitchDefault(name) == McpError("MethodNotFound", "Unknown tool: " \o name)

Switch(name, args) ==
  CASE name = "add" -> SwitchAdd(args)
    [] name = "subtract" -> SwitchSubtract(args)
    [] name = "multiply" -> SwitchMultiply(args)
    [] name = "divide" -> SwitchDivide(args)
    [] name = "power" -> SwitchPower(args)
    [] name = "sqrt" -> SwitchSqrt(args)
    [] OTHER -> SwitchDefault(name)

(* catch (error): an McpError is rethrown, anything else is wrapped *)
Catch(outcome) ==
  IF outcome.tag = "throw" /\ outcome.class # "McpError"
  THEN McpError("InternalError", "Calculator error: " \o outcome.message)
  ELSE outcome

CallToolHandler(name, args) == Catch(Switch(name, args))

IndexCallTool(name, args) == CallToolHandler(name, args)
HttpServerCallTool(name, args) == CallToolHandler(name, args)
Part000CallToolHandler(name, args) == CallToolHandler(name, args)

(***************************************************************************)
(* callTool of unnamed/part_000, reached from POST /mcp.                   *)
(***************************************************************************)
Part000CallTool(name, args) ==
  CASE name = "add" ->
         IF args = Undefined THEN ReadPropertyError("a")
         ELSE Return(JsToString(Get(args, "a")) \o " + "
                       \o JsToString(Get(args, "b")) \o " = "
                       \o JsToString(JsAdd(Get(args, "a"), Get(args, "b"))))
    [] name = "subtract" ->
         IF args = Undefined THEN ReadPropertyError("a")
         ELSE Return(JsToString(Get(args, "a")) \o " - "
                       \o JsToString(Get(args, "b")) \o " = "
                       \o JsToString(JsSub(Get(args, "a"), Get(args, "b"))))
    [] name = "multiply" ->
         IF args = Undefined THEN ReadPropertyError("a")
         ELSE Return(JsToString(Get(args, "a")) \o " " \o TimesSign \o " "
                       \o JsToString(Get(args, "b")) \o " = "
                       \o JsToString(JsMul(Get(args, "a"), Get(args, "b"))))
    [] name = "divide" ->
         IF args = Undefined THEN ReadPropertyError("b")
         ELSE IF StrictEqualsZero(Get(args, "b"))
         THEN McpError("InvalidRequest", "Division by zero is not allowed")
         ELSE Return(JsToString(Get(args, "a")) \o " " \o DivideSign \o " "
                       \o JsToString(Get(args, "b")) \o " = "
                       \o JsToString(JsDiv(Get(args, "a"), Get(args, "b"))))
    [] name = "power" ->
         IF args = Undefined THEN ReadPropertyError("base")
         ELSE Return(JsToString(Get(args, "base")) \o "^"
                       \o JsToString(Get(args, "exponent")) \o " = "
                       \o JsToString(MathPow(Get(args, "base"),
                                             Get(args, "exponent"))))
    [] name = "sqrt" ->
         IF args = Undefined THEN ReadPropertyError("number")
         ELSE IF LessThanZero(Get(args, "number"))
         THEN McpError("InvalidRequest",
                       "Cannot calculate square root of negative number")
         ELSE Return(RadicalSign \o JsToString(Get(args, "number")) \o " = "
                       \o JsToString(MathSqrt(Get(args, "number"))))
    [] OTHER -> McpError("MethodNotFound", "Unknown tool: " \o name)

(***************************************************************************)
(* callTool of unnamed/part_001, reached from POST /mcp and POST /sse.     *)
(***************************************************************************)
Part001CallTool(name, args) ==
  CASE name = "add" ->
         IF args = Undefined THEN ReadPropertyError("a")
         ELSE Return(JsToString(Get(args, "a")) \o " + "
                       \o JsToString(Get(args, "b")) \o " = "
                       \o JsToString(JsAdd(Get(args, "a"), Get(args, "b"))))
    [] name = "subtract" ->
         IF args = Undefined THEN ReadPropertyError("a")
         ELSE Return(JsToString(Get(args, "a")) \o " - "
                       \o JsToString(Get(args, "b")) \o " = "
                       \o JsToString(JsSub(Get(args, "a"), Get(args, "b"))))
    [] name = "multiply" ->
         IF args = Undefined THEN ReadPropertyError("a")
         ELSE Return(JsToString(Get(args, "a")) \o " " \o TimesSign \o " "
                       \o JsToString(Get(args, "b")) \o " = "
                       \o JsToString(JsMul(Get(args, "a"), Get(args, "b"))))
    [] name = "divide" ->
         IF args = Undefined THEN ReadPropertyError("b")
         ELSE IF StrictEqualsZero(Get(args, "b"))
         THEN Error("Division by zero is not allowed")
         ELSE Return(JsToString(Get(args, "a")) \o " " \o DivideSign \o " "
                       \o JsToString(Get(args, "b")) \o " = "
                       \o JsToString(JsDiv(Get(args, "a"), Get(args, "b"))))
    [] name = "power" ->
         IF args = Undefined THEN ReadPropertyError("base")
         ELSE Return(JsToString(Get(args, "base")) \o "^"
                       \o JsToString(Get(args, "exponent")) \o " = "
                       \o JsToString(MathPow(Get(args, "base"),
                                             Get(args, "exponent"))))
    [] name = "sqrt" ->
         IF args = Undefined THEN ReadPropertyError("number")
         ELSE IF LessThanZero(Get(args, "number"))
         THEN Error("Cannot calculate square root of negative number")
         ELSE Return(RadicalSign \o JsToString(Get(args, "number")) \o " = "
                       \o JsToString(MathSqrt(Get(args, "number"))))
    [] OTHER -> Error("Unknown tool: " \o name)

(***************************************************************************)
(* The tool catalogs.                                                      *)
(***************************************************************************)
NumberProp(description) == [type |-> "number", description |-> description]

NumberPropMin(description, minimum) ==
  [type |-> "number", description |-> description, minimum |-> minimum]

Tool(name, description, properties, required) ==
  [name |-> name, description |-> description,
   inputSchema |-> [type |-> "object", properties |-> properties,
                    required |-> required]]

(* ListToolsRequestSchema handler of src/index.js *)
IndexTools ==
  << Tool("add", "Add two numbers together",
          [a |-> NumberProp("First number"), b |-> NumberProp("Second number")],
          <<"a", "b">>),
     Tool("subtract", "Subtract second number from first number",
          [a |-> NumberProp("Number to subtract from"),
           b |-> NumberProp("Number to subtract")],
          <<"a", "b">>),
     Tool("multiply", "Multiply two numbers",
          [a |-> NumberProp("First number"), b |-> NumberProp("Second number")],
          <<"a", "b">>),
     Tool("divide", "Divide first number by second number",
          [a |-> NumberProp("Dividend"), b |-> NumberProp("Divisor")],
          <<"a", "b">>),
     Tool("power", "Raise first number to the power of second number",
          [base |-> NumberProp("Base number"),
           exponent |-> NumberProp("Exponent")],
          <<"base", "exponent">>),
     Tool("sqrt", "Calculate square root of a number",
          [number |-> NumberPropMin("Number to find square root of", 0)],
          <<"number">>) >>

(* ListToolsRequestSchema handler of src/http-server.js: the same text *)
HttpServerTools == IndexTools

(* ListToolsRequestSchema handler of unnamed/part_000 (setupTools) *)
Part000SetupTools ==
  << Tool("add", "Add two numbers together",
          [a |-> NumberProp("First number"), b |-> NumberProp("Second number")],
          <<"a", "b">>),
     Tool("subtract", "Subtract second number from first number",
          [a |-> NumberProp("Number to subtract from"),
           b |-> NumberProp("Number to subtract")],
          <<"a", "b">>),
     Tool("multiply", "Multiply two numbers together",
          [a |-> NumberProp("First number"), b |-> NumberProp("Second number")],
          <<"a", "b">>),
     Tool("divide", "Divide first number by second number",
          [a |-> NumberProp("Dividend"), b |-> NumberProp("Divisor")],
          <<"a", "b">>),
     Tool("power", "Raise first number to the power of second number",
          [base |-> NumberProp("Base number"),
           exponent |-> NumberProp("Exponent")],
          <<"base", "exponent">>),
     Tool("sqrt", "Calculate square root of a number",
          [number |-> NumberPropMin("Number to find square root of", 0)],
          <<"number">>) >>

(* tools/list of handleMCPRequest in unnamed/part_000 *)
Part000Tools ==
  << Tool("add", "Add two numbers",
          [a |-> NumberProp("First number"), b |-> NumberProp("Second number")],
          <<"a", "b">>),
     Tool("subtract", "Subtract two numbers",
          [a |-> NumberProp("First number"), b |-> NumberProp("Second number")],
          <<"a", "b">>),
     Tool("multiply", "Multiply two numbers",
          [a |-> NumberProp("First number"), b |-> NumberProp("Second number")],
          <<"a", "b">>),
     Tool("divide", "Divide two numbers",
          [a |-> NumberProp("First number"), b |-> NumberProp("Second number")],
          <<"a", "b">>),
     Tool("power", "Raise a number to a power",
          [base |-> NumberProp("Base number"),
           exponent |-> NumberProp("Exponent")],
          <<"base", "exponent">>),
     Tool("sqrt", "Calculate square root",
          [number |-> NumberProp("Number to calculate square root of")],
          <<"number">>) >>

(* the catalog with its last descriptor left out *)
Part001ToolsMutant == SubSeq(Part000Tools, 1, 5)

(* tools/list of handleMCPRequest in unnamed/part_001: the same text *)
Part001Tools == Part000Tools

(***************************************************************************)
(* The input universe: tool names, JSON values, arguments mappings.        *)
(***************************************************************************)
ToolNames == {"add", "subtract", "multiply", "divide", "power", "sqrt"}
Names == ToolNames \cup {"foo", "Add", ""}

Numbers == {Num(i) : i \in (0 - MaxNum)..MaxNum}
Strings ==
  {Str(<<"0">>), Str(<<"5">>), Str(<<"-", "4">>), Str(<<"a", "b", "c">>)}
Values == Numbers \cup Strings \cup {Null, Undefined}

(* a property whose value would be undefined is a property that is missing *)
Props(f) == [k \in {j \in DOMAIN f : f[j] # Undefined} |-> f[k]]

ArgsOver(fields, values) == {Obj(Props(f)) : f \in [fields -> values]}

ArgsOf(values) ==
  {Undefined} \cup ArgsOver({"a", "b"}, values)
              \cup ArgsOver({"base", "exponent"}, values)
              \cup ArgsOver({"number"}, values)

(* the number the tool prints has a text the model can spell *)
InDomain(name, args) ==
  IF args = Undefined THEN TRUE
  ELSE CASE name = "divide" ->
              Printable(JsDiv(Get(args, "a"), Get(args, "b")))
         [] name = "power" ->
              Printable(MathPow(Get(args, "base"), Get(args, "exponent")))
         [] name = "sqrt" -> HasRationalRoot(ToNumber(Get(args, "number")))
         [] OTHER -> TRUE

(***************************************************************************)
(* State.                                                                  *)
(*   variant   the server file this process runs                           *)
(*   proc      the process: how far run() got, whether server.connect and  *)
(*             app.listen succeeded, whether SIGINT arrived, whether       *)
(*             server.close() completed, the exit code (-1 while the       *)
(*             process lives)                                              *)
(*   request   the request being handled, response what its handler did   *)
(*   reply     what an HTTP route sent back for the request                *)
(*   conns     the GET /sse connections of part_001                        *)
(***************************************************************************)
VARIABLES variant, proc, request, response, reply, conns

vars == <<variant, proc, request, response, reply, conns>>

Variants == {"index.js", "http-server.js", "part_000", "part_001"}

(* Bounds of the event-stream model. *)
MaxConns == 3
MaxKeepAlive == 2

ConnIds == 1..MaxConns

NoRequest == [op |-> "none"]
NoResponse == [tag |-> "none"]
NoReply == [status |-> 0]
NoConn == [state |-> "none", timer |-> FALSE, ended |-> FALSE, frames |-> <<>>]

CallRequest(via, name, args) ==
  [op |-> "tools/call", via |-> via, name |-> name, args |-> args]

ListRequest(via) == [op |-> "tools/list", via |-> via]

Listing(tools) == [tag |-> "return", tools |-> tools]

(* the constructor has run and run() has been called *)
Init ==
  /\ variant \in Variants
  /\ proc = [phase |-> "starting", connected |-> FALSE, listening |-> FALSE,
             signalled |-> FALSE, closed |-> FALSE, exitCode |-> -1]
  /\ request = NoRequest
  /\ response = NoResponse
  /\ reply = NoReply
  /\ conns = [c \in ConnIds |-> NoConn]

(* process.exit(code), or the process ending with that code *)
Exited(code) == [proc EXCEPT !.phase = "exited", !.exitCode = code]

(***************************************************************************)
(* run() and what follows it.                                              *)
(***************************************************************************)
(* index.js: await this.server.connect(transport); a rejection goes to
   .catch(console.error) *)
RunIndex ==
  /\ variant = "index.js" /\ proc.phase = "starting"
  /\ \E ok \in BOOLEAN :
       proc' = IF ok THEN [proc EXCEPT !.phase = "serving", !.connected = TRUE]
               ELSE [proc EXCEPT !.phase = "failed"]
  /\ UNCHANGED <<variant, request, response, reply, conns>>

RunHttpServerMutant ==
  /\ variant = "http-server.js" /\ proc.phase = "starting"
  /\ \E ok \in BOOLEAN :
       proc' = [proc EXCEPT !.phase = "binding", !.connected = ok]
  /\ UNCHANGED <<variant, request, response, reply, conns>>

(* http-server.js: connect, then app.listen; a rejection goes to
   .catch(console.error) and listen is not called *)
RunHttpServer ==
  /\ variant = "http-server.js" /\ proc.phase = "starting"
  /\ \E ok \in BOOLEAN :
       proc' = IF ok THEN [proc EXCEPT !.phase = "binding", !.connected = TRUE]
               ELSE [proc EXCEPT !.phase = "failed"]
  /\ UNCHANGED <<variant, request, response, reply, conns>>

(* part_000: connect, then app.listen; the catch block calls
   process.exit(1) *)
RunPart000 ==
  /\ variant = "part_000" /\ proc.phase = "starting"
  /\ \E ok \in BOOLEAN :
       proc' = IF ok THEN [proc EXCEPT !.phase = "binding", !.connected = TRUE]
               ELSE Exited(1)
  /\ UNCHANGED <<variant, request, response, reply, conns>>

(* part_001: app.listen only *)
RunPart001 ==
  /\ variant = "part_001" /\ proc.phase = "starting"
  /\ proc' = [proc EXCEPT !.phase = "binding"]
  /\ UNCHANGED <<variant, request, response, reply, conns>>

(* the listener is bound: the callback of app.listen runs *)
Listening ==
  /\ proc.phase = "binding"
  /\ proc' = [proc EXCEPT !.phase = "serving", !.listening = TRUE]
  /\ UNCHANGED <<variant, request, response, reply, conns>>

(* the listener cannot be bound: the 'error' event of the http server has no
   listener, the exception is uncaught and the process ends with code 1 *)
BindError ==
  /\ proc.phase = "binding"
  /\ proc' = Exited(1)
  /\ UNCHANGED <<variant, request, response, reply, conns>>

(* after a logged rejection of run() nothing may be left to keep the event
   loop alive: the process ends with code 0 *)
EventLoopDrains ==
  /\ proc.phase = "failed"
  /\ proc' = Exited(0)
  /\ UNCHANGED <<variant, request, response, reply, conns>>

(* SIGINT in index.js, http-server.js and part_000: the handler calls
   server.close() and awaits it *)
Sigint ==
  /\ variant \in {"index.js", "http-server.js", "part_000"}
  /\ proc.phase \in {"starting", "binding", "serving", "failed"}
  /\ request = NoRequest
  /\ proc' = [proc EXCEPT !.phase = "closing", !.signalled = TRUE]
  /\ UNCHANGED <<variant, request, response, reply, conns>>

(* server.close() has completed *)
SessionClosed ==
  /\ proc.phase = "closing" /\ ~proc.closed
  /\ proc' = [proc EXCEPT !.closed = TRUE]
  /\ UNCHANGED <<variant, request, response, reply, conns>>

(* the handler continues after the await: process.exit(0) *)
ExitAfterClose ==
  /\ proc.phase = "closing" /\ proc.closed
  /\ proc' = Exited(0)
  /\ UNCHANGED <<variant, request, response, reply, conns>>

(* SIGINT in part_001: the handler logs and calls process.exit(0) *)
SigintPart001 ==
  /\ variant = "part_001"
  /\ proc.phase \in {"starting", "binding", "serving"}
  /\ request = NoRequest
  /\ proc' = [Exited(0) EXCEPT !.signalled = TRUE]
  /\ UNCHANGED <<variant, request, response, reply, conns>>

(***************************************************************************)
(* The MCP request handlers.                                               *)
(***************************************************************************)
(* the process runs variant v, has started and is not in the middle of a
   request *)
Idle(v) == variant = v /\ proc.phase = "serving" /\ request = NoRequest

(* a tools/call request reaches the handler `via`; a handler has no await in
   it, so it runs from its request to its outcome in one step *)
Call(via, name, args, outcome) ==
  /\ InDomain(name, args)
  /\ request' = CallRequest(via, name, args)
  /\ response' = outcome
  /\ reply' = NoReply
  /\ UNCHANGED <<variant, proc, conns>>

(* a tools/list request reaches the handler `via` *)
List(via, tools) ==
  /\ request' = ListRequest(via)
  /\ response' = Listing(tools)
  /\ reply' = NoReply
  /\ UNCHANGED <<variant, proc, conns>>

OnCallToolIndex(values) ==
  /\ Idle("index.js")
  /\ \E name \in Names, args \in ArgsOf(values) :
       Call("CallToolRequestSchema", name, args,
            IndexCallTool(name, args))

OnCallToolHttpServer(values) ==
  /\ Idle("http-server.js")
  /\ \E name \in Names, args \in ArgsOf(values) :
       Call("CallToolRequestSchema", name, args,
            HttpServerCallTool(name, args))

OnCallToolPart000(values) ==
  /\ Idle("part_000")
  /\ \E name \in Names, args \in ArgsOf(values) :
       Call("CallToolRequestSchema", name, args,
            Part000CallToolHandler(name, args))

OnCallToolFallbackPart000(values) ==
  /\ Idle("part_000")
  /\ \E name \in Names, args \in ArgsOf(values) :
       Call("callTool", name, args, Part000CallTool(name, args))

OnCallToolFallbackPart001(values) ==
  /\ Idle("part_001")
  /\ \E name \in Names, args \in ArgsOf(values) :
       Call("callTool", name, args, Part001CallTool(name, args))

OnListToolsIndex ==
  /\ Idle("index.js")
  /\ List("ListToolsRequestSchema", IndexTools)

OnListToolsHttpServer ==
  /\ Idle("http-server.js")
  /\ List("ListToolsRequestSchema", HttpServerTools)

OnListToolsPart000 ==
  /\ Idle("part_000")
  /\ List("ListToolsRequestSchema", Part000SetupTools)

OnToolsListPart000 ==
  /\ Idle("part_000")
  /\ List("handleMCPRequest", Part000Tools)

OnToolsListPart001 ==
  /\ Idle("part_001")
  /\ List("handleMCPRequest", Part001Tools)

(***************************************************************************)
(* The HTTP routes.                                                        *)
(***************************************************************************)
(* what express.json() can leave in req.body: nothing, an empty object, or
   the posted JSON-RPC object; a field whose value would be undefined is a
   field that is missing *)
Methods == {"tools/list", "tools/call", "initialize"}

CallBodies(values) ==
  {[method |-> "tools/call", params |-> [name |-> name, arguments |-> args]] :
     name \in Names, args \in ArgsOf(values)}

PlainBodies ==
  {Undefined, [id |-> 1], [id |-> 1, params |-> [name |-> "add"]]}
    \cup {[method |-> m] : m \in Methods}

(* request.method === m *)
MethodIs(body, m) ==
  IF "method" \in DOMAIN body THEN body.method = m ELSE FALSE

(* ${request.method} *)
MethodText(body) ==
  IF "method" \in DOMAIN body THEN body.method ELSE "undefined"

(* handleMCPRequest of unnamed/part_000 *)
Part000HandleMCPRequest(body) ==
  IF body = Undefined THEN ReadPropertyError("method")
  ELSE IF MethodIs(body, "tools/list") THEN Listing(Part000Tools)
  ELSE IF MethodIs(body, "tools/call")
       THEN IF "params" \in DOMAIN body
            THEN Part000CallTool(body.params.name, body.params.arguments)
            ELSE ReadPropertyError("name")
  ELSE Error("Unknown method: " \o MethodText(body))

(* handleMCPRequest of unnamed/part_001 *)
Part001HandleMCPRequest(body) ==
  IF body = Undefined THEN ReadPropertyError("method")
  ELSE IF MethodIs(body, "tools/list") THEN Listing(Part001Tools)
  ELSE IF MethodIs(body, "tools/call")
       THEN IF "params" \in DOMAIN body
            THEN Part001CallTool(body.params.name, body.params.arguments)
            ELSE ReadPropertyError("name")
  ELSE Error("Unknown method: " \o MethodText(body))

(* the numbers of ErrorCode in the SDK *)
ErrorCodeNumber(code) ==
  CASE code = "InvalidRequest" -> "-32600"
    [] code = "MethodNotFound" -> "-32601"
    [] code = "InternalError" -> "-32603"

(* error.message: the text given to new Error; the constructor of McpError
   belongs to the SDK, which either keeps the text or puts
   "MCP error <number>: " before it *)
ErrorMessages(outcome) ==
  IF outcome.class = "McpError"
  THEN {outcome.message,
        "MCP error " \o ErrorCodeNumber(outcome.code) \o ": "
          \o outcome.message}
  ELSE {outcome.message}

(* what res.json serialises: the object the handler returned *)
ResultJson(outcome) ==
  IF "tools" \in DOMAIN outcome THEN [tools |-> outcome.tools]
  ELSE [content |-> outcome.content]

Json(status, body) == [status |-> status, body |-> body]

RespondMutant(outcome, message) == Json(200, [error |-> message])

(* try { res.json(result) } catch (error) {
     res.status(500).json({ error: error.message }) } *)
Respond(outcome, message) ==
  IF outcome.tag = "return" THEN Json(200, ResultJson(outcome))
  ELSE Json(500, [error |-> message])

HttpRequest(verb, path, body) ==
  [op |-> "http", verb |-> verb, path |-> path, body |-> body]

(* new Date().toISOString(): the reading of the clock is left abstract *)
ToISOString == "timestamp"

(* a route that awaits handleMCPRequest and answers with its outcome *)
Route(verb, path, body, outcome) ==
  /\ request' = HttpRequest(verb, path, body)
  /\ response' = outcome
  /\ \E message \in (IF outcome.tag = "throw" THEN ErrorMessages(outcome)
                     ELSE {""}) :
       reply' = Respond(outcome, message)
  /\ UNCHANGED <<variant, proc, conns>>

(* a route that answers with a fixed object *)
Static(verb, path, body) ==
  /\ request' = HttpRequest(verb, path, Undefined)
  /\ response' = NoResponse
  /\ reply' = Json(200, body)
  /\ UNCHANGED <<variant, proc, conns>>

BodyInDomain(body) ==
  IF body = Undefined THEN TRUE
  ELSE IF MethodIs(body, "tools/call") /\ "params" \in DOMAIN body
       THEN InDomain(body.params.name, body.params.arguments)
  ELSE TRUE

(* the routes setupExpress registers *)
Routes(v) ==
  CASE v = "index.js" -> {}
    [] v = "http-server.js" -> {<<"GET", "/health">>, <<"GET", "/">>}
    [] v = "part_000" ->
         {<<"GET", "/health">>, <<"POST", "/mcp">>, <<"GET", "/mcp">>}
    [] v = "part_001" ->
         {<<"GET", "/health">>, <<"GET", "/status">>, <<"GET", "/">>,
          <<"GET", "/sse">>, <<"POST", "/sse">>, <<"POST", "/mcp">>,
          <<"GET", "/mcp">>}

Verbs == {"GET", "POST"}
Paths == {"/", "/health", "/status", "/sse", "/mcp"}

GetHealthHttpServer ==
  /\ Idle("http-server.js")
  /\ Static("GET", "/health",
            [status |-> "healthy", server |-> "example-calculator-mcp",
             version |-> "1.0.0", timestamp |-> ToISOString])

GetRootHttpServer ==
  /\ Idle("http-server.js")
  /\ Static("GET", "/",
            [name |-> "Example Calculator MCP Server", version |-> "1.0.0",
             description |-> "A simple MCP server with basic calculator tools",
             endpoints |-> [health |-> "/health", sse |-> "/sse"],
             tools |-> <<"add", "subtract", "multiply", "divide", "power",
                         "sqrt">>])

GetHealthPart000 ==
  /\ Idle("part_000")
  /\ Static("GET", "/health",
            [status |-> "healthy", timestamp |-> ToISOString])

PostMcpPart000(values) ==
  /\ Idle("part_000")
  /\ \E body \in PlainBodies \cup CallBodies(values) :
       /\ BodyInDomain(body)
       /\ Route("POST", "/mcp", body, Part000HandleMCPRequest(body))

GetMcpPart000 ==
  /\ Idle("part_000")
  /\ Route("GET", "/mcp", Undefined,
           Part000HandleMCPRequest([method |-> "tools/list"]))

GetHealthPart001 ==
  /\ Idle("part_001")
  /\ Static("GET", "/health",
            [status |-> "healthy", timestamp |-> ToISOString])

(* handleMCPRequest does not throw for tools/list, so the catch block of
   the route is never entered *)
GetStatusPart001 ==
  /\ Idle("part_001")
  /\ LET tools == Part001HandleMCPRequest([method |-> "tools/list"])
     IN  /\ request' = HttpRequest("GET", "/status", Undefined)
         /\ response' = tools
         /\ reply' = Json(200, [status |-> "ok", tools |-> tools.tools,
                                server |-> [name |-> "example-calculator-mcp",
                                            version |-> "0.1.0"]])
  /\ UNCHANGED <<variant, proc, conns>>

GetRootPart001 ==
  /\ Idle("part_001")
  /\ Static("GET", "/",
            [name |-> "example-calculator-mcp", type |-> "mcp-server",
             version |-> "0.1.0", endpoints |-> <<"/sse", "/health">>])

PostSsePart001(values) ==
  /\ Idle("part_001")
  /\ \E body \in PlainBodies \cup CallBodies(values) :
       /\ BodyInDomain(body)
       /\ Route("POST", "/sse", body, Part001HandleMCPRequest(body))

PostMcpPart001(values) ==
  /\ Idle("part_001")
  /\ \E body \in PlainBodies \cup CallBodies(values) :
       /\ BodyInDomain(body)
       /\ Route("POST", "/mcp", body, Part001HandleMCPRequest(body))

GetMcpPart001 ==
  /\ Idle("part_001")
  /\ Route("GET", "/mcp", Undefined,
           Part001HandleMCPRequest([method |-> "tools/list"]))

(* no route matches: the final handler of Express answers 404 *)
NotFound ==
  /\ variant # "index.js" /\ proc.phase = "serving" /\ request = NoRequest
  /\ \E verb \in Verbs, path \in Paths :
       /\ <<verb, path>> \notin Routes(variant)
       /\ request' = HttpRequest(verb, path, Undefined)
       /\ response' = NoResponse
       /\ reply' = Json(404, Undefined)
  /\ UNCHANGED <<variant, proc, conns>>

Http ==
  \/ GetHealthHttpServer
  \/ GetRootHttpServer
  \/ GetHealthPart000
  \/ PostMcpPart000(Values)
  \/ GetMcpPart000
  \/ GetHealthPart001
  \/ GetStatusPart001
  \/ GetRootPart001
  \/ PostSsePart001(Values)
  \/ PostMcpPart001(Values)
  \/ GetMcpPart001
  \/ NotFound

(* the transport has written the outcome to the client; request and result
   are discarded *)
Reply ==
  /\ request # NoRequest
  /\ request' = NoRequest
  /\ response' = NoResponse
  /\ reply' = NoReply
  /\ UNCHANGED <<variant, proc, conns>>

Lifecycle ==
  \/ RunIndex
  \/ RunHttpServer
  \/ RunPart000
  \/ RunPart001
  \/ Listening
  \/ BindError
  \/ EventLoopDrains
  \/ Sigint
  \/ SessionClosed
  \/ ExitAfterClose
  \/ SigintPart001

Next ==
  \/ OnCallToolIndex(Values)
  \/ OnCallToolHttpServer(Values)
  \/ OnCallToolPart000(Values)
  \/ OnCallToolFallbackPart000(Values)
  \/ OnCallToolFallbackPart001(Values)
  \/ OnListToolsIndex
  \/ OnListToolsHttpServer
  \/ OnListToolsPart000
  \/ OnToolsListPart000
  \/ OnToolsListPart001
  \/ Http
  \/ Reply
  \/ Lifecycle

Spec == Init /\ [][Next]_vars

(***************************************************************************)
(* The event streams of unnamed/part_001: GET /sse.                        *)
(***************************************************************************)
(* res.writeHead(200, {...}) *)
Head200 == [kind |-> "head", status |-> 200]

(* res.write("data: " + JSON.stringify({jsonrpc: "2.0", method, params})
   + "\n\n") *)
DataFrame(method, params) ==
  [kind |-> "data", jsonrpc |-> "2.0", method |-> method, params |-> params]

(* res.write(": keep-alive\n\n") *)
KeepAliveFrame == [kind |-> "comment", text |-> "keep-alive"]

OpeningFramesMutant ==
  << Head200,
     DataFrame("tools/list",
               [tools |->
                  Part001HandleMCPRequest([method |-> "tools/list"]).tools]),
     DataFrame("notifications/initialized", <<>>) >>

(* what the route writes before it returns *)
OpeningFrames ==
  << Head200,
     DataFrame("notifications/initialized", <<>>),
     DataFrame("tools/list",
               [tools |->
                  Part001HandleMCPRequest([method |-> "tools/list"]).tools]) >>

(* the GET /sse route for a new connection c: the headers and the two
   frames are written, the interval is set and the close listener is
   registered; the await in between resolves before any other event.
   Nothing in the try block throws (tools/list of handleMCPRequest returns),
   so the catch block with its res.status(500).json is not entered *)
GetSsePart001 ==
  /\ Idle("part_001")
  /\ \E c \in ConnIds :
       /\ conns[c].state = "none"
       /\ conns' = [conns EXCEPT ![c] = [state |-> "open", timer |-> TRUE,
                                         ended |-> FALSE,
                                         frames |-> OpeningFrames]]
  /\ UNCHANGED <<variant, proc, request, response, reply>>

(* the interval of connection c fires *)
KeepAlive ==
  /\ Idle("part_001")
  /\ \E c \in ConnIds :
       /\ conns[c].timer
       /\ Len(conns[c].frames) < Len(OpeningFrames) + MaxKeepAlive
       /\ conns' = [conns EXCEPT
                      ![c].frames = Append(conns[c].frames, KeepAliveFrame)]
  /\ UNCHANGED <<variant, proc, request, response, reply>>

(* the client of connection c goes away: req.on("close") runs
   clearInterval(keepAlive) and res.end() *)
OnClose ==
  /\ Idle("part_001")
  /\ \E c \in ConnIds :
       /\ conns[c].state = "open"
       /\ conns' = [conns EXCEPT ![c].state = "closed", ![c].timer = FALSE,
                                 ![c].ended = TRUE]
  /\ UNCHANGED <<variant, proc, request, response, reply>>

InitSse == Init /\ variant = "part_001"

NextSse ==
  \/ RunPart001
  \/ Listening
  \/ BindError
  \/ SigintPart001
  \/ GetSsePart001
  \/ KeepAlive
  \/ OnClose

SpecSse == InitSse /\ [][NextSse]_vars

(***************************************************************************)
(* Properties.                                                             *)
(***************************************************************************)
IsCall == request.op = "tools/call"
IsList == request.op = "tools/list"

(* the arguments mapping is present and holds a number under f *)
ArgNum(f) ==
  /\ request.args.t = "object"
  /\ f \in DOMAIN request.args.props
  /\ request.args.props[f].t = "num"
  /\ request.args.props[f].d = 1

Arg(f) == request.args.props[f].n

IntText(i) == Join(NumberToChars(Num(i)))

(* C1: add, subtract and multiply of two numbers succeed in every dispatcher
   with exactly one text item "<a> + <b> = <a+b>", "<a> - <b> = <a-b>" or
   "<a> x <b> = <a*b>" (x the multiplication sign). *)
C1_ArithmeticSucceeds ==
  (IsCall /\ request.name \in {"add", "subtract", "multiply"}
          /\ ArgNum("a") /\ ArgNum("b"))
    => LET a == Arg("a")
           b == Arg("b")
       IN  response =
             Return(CASE request.name = "add" ->
                           IntText(a) \o " + " \o IntText(b)
                             \o " = " \o IntText(a + b)
                      [] request.name = "subtract" ->
                           IntText(a) \o " - " \o IntText(b)
                             \o " = " \o IntText(a - b)
                      [] request.name = "multiply" ->
                           IntText(a) \o " " \o TimesSign \o " " \o IntText(b)
                             \o " = " \o IntText(a * b))

(* the fallback callTool of part_001 has answered add {a: 5, b: 3} *)
C1_Witness ==
  /\ IsCall /\ variant = "part_001" /\ request.via = "callTool"
  /\ request.name = "add" /\ ArgNum("a") /\ ArgNum("b")
  /\ Arg("a") = 5 /\ Arg("b") = 3
  /\ response = Return("5 + 3 = 8")

(* C2: divide with b equal to the number 0 fails in every dispatcher,
   whatever a is (missing, a string, null or a number). *)
C2_DivideByZeroFails ==
  (IsCall /\ request.name = "divide" /\ ArgNum("b") /\ Arg("b") = 0)
    => response.tag = "throw"

(* the fallback callTool of part_001 has refused divide {b: 0} with no a *)
C2_Witness ==
  /\ IsCall /\ variant = "part_001" /\ request.via = "callTool"
  /\ request.name = "divide" /\ ArgNum("b") /\ Arg("b") = 0
  /\ "a" \notin DOMAIN request.args.props
  /\ response.tag = "throw"

(* C3: the failure of divide with b = 0 is, on every invocation path, the
   structured invalid-argument error (McpError with ErrorCode.InvalidRequest)
   with exactly the message "Cannot divide by zero". *)
C3_DivideByZeroIsInvalidArgument ==
  (IsCall /\ request.name = "divide" /\ ArgNum("b") /\ Arg("b") = 0)
    => /\ response.tag = "throw"
       /\ response.class = "McpError"
       /\ response.code = "InvalidRequest"
       /\ response.message = "Cannot divide by zero"

(* a / b for b # 0 dividing a *)
ExactQuotient(a, b) ==
  (IF (a < 0) = (b < 0) THEN 1 ELSE -1) * (Abs(a) \div Abs(b))

(* C4: divide with numbers a and b # 0 succeeds; where b divides a the text
   is "<a> / <b> = <q>" with q the quotient (/ the division sign). *)
C4_DivideSucceeds ==
  (IsCall /\ request.name = "divide" /\ ArgNum("a") /\ ArgNum("b")
          /\ Arg("b") # 0)
    => LET a == Arg("a")
           b == Arg("b")
       IN  /\ response.tag = "return"
           /\ Len(response.content) = 1
           /\ a % Abs(b) = 0 =>
                response = Return(IntText(a) \o " " \o DivideSign \o " "
                                    \o IntText(b) \o " = "
                                    \o IntText(ExactQuotient(a, b)))

(* the handler of http-server.js has answered divide {a: 4, b: -2} *)
C4_Witness ==
  /\ IsCall /\ variant = "http-server.js"
  /\ request.name = "divide" /\ ArgNum("a") /\ ArgNum("b")
  /\ Arg("a") = 4 /\ Arg("b") = -2
  /\ response.tag = "return"
  /\ response.content[1].text = "4 " \o DivideSign \o " -2 = -2"

(* C5: sqrt of a number n < 0 is the invalid-argument failure "Cannot
   calculate square root of negative number"; sqrt of n >= 0 succeeds with
   the text of the non-negative root. *)
C5_SqrtPartition ==
  (IsCall /\ request.name = "sqrt" /\ ArgNum("number"))
    => LET n == Arg("number") IN
       IF n < 0
       THEN /\ response.tag = "throw"
            /\ response.class = "McpError"
            /\ response.code = "InvalidRequest"
            /\ response.message
                 = "Cannot calculate square root of negative number"
       ELSE \E r \in 0..n :
              /\ r * r = n
              /\ response = Return(RadicalSign \o IntText(n)
                                     \o " = " \o IntText(r))

(* C6: power of two numbers never fails; for an exponent >= 0 the text is
   "<base>^<exponent> = <base to the exponent>", 0^0 being 1. *)
C6_PowerSucceeds ==
  (IsCall /\ request.name = "power" /\ ArgNum("base") /\ ArgNum("exponent"))
    => LET b == Arg("base")
           e == Arg("exponent")
       IN  /\ response.tag = "return"
           /\ Len(response.content) = 1
           /\ e >= 0 =>
                response = Return(IntText(b) \o "^" \o IntText(e) \o " = "
                                    \o IntText(IF e = 0 THEN 1
                                               ELSE IntPow(b, e)))

(* the handler of index.js has answered power {base: 2, exponent: 3} *)
C6_Witness ==
  /\ IsCall /\ variant = "index.js"
  /\ request.name = "power" /\ ArgNum("base") /\ ArgNum("exponent")
  /\ Arg("base") = 2 /\ Arg("exponent") = 3
  /\ response = Return("2^3 = 8")

(* C7: a name that is not one of the six tool names yields the
   method-not-found failure "Unknown tool: <name>", whatever the arguments
   are, absent ones included. *)
C7_UnknownToolIsMethodNotFound ==
  (IsCall /\ request.name \notin ToolNames)
    => /\ response.tag = "throw"
       /\ response.class = "McpError"
       /\ response.code = "MethodNotFound"
       /\ response.message = "Unknown tool: " \o request.name

(* the dispatchers of a variant, and what each does with a call *)
DispatchersOf(v) ==
  CASE v = "index.js" -> {"IndexCallTool"}
    [] v = "http-server.js" -> {"HttpServerCallTool"}
    [] v = "part_000" -> {"Part000CallToolHandler", "Part000CallTool"}
    [] v = "part_001" -> {"Part001CallTool"}

Dispatch(d, name, args) ==
  CASE d = "IndexCallTool" -> IndexCallTool(name, args)
    [] d = "HttpServerCallTool" -> HttpServerCallTool(name, args)
    [] d = "Part000CallToolHandler" -> Part000CallToolHandler(name, args)
    [] d = "Part000CallTool" -> Part000CallTool(name, args)
    [] d = "Part001CallTool" -> Part001CallTool(name, args)

(* the names dispatcher d does not send to its unknown-tool case *)
HandledNames(d) ==
  {n \in Names :
     LET outcome == Dispatch(d, n, Undefined)
     IN  ~(outcome.tag = "throw" /\ outcome.message = "Unknown tool: " \o n)}

SixNames == <<"add", "subtract", "multiply", "divide", "power", "sqrt">>

(* C8: every tool listing of every variant holds exactly six descriptors
   named add, subtract, multiply, divide, power, sqrt in this order, and the
   listed names are exactly the names each dispatcher of the same variant
   handles. *)
C8_CatalogMatchesDispatcher ==
  IsList
    => /\ Len(response.tools) = 6
       /\ \A i \in 1..6 : response.tools[i].name = SixNames[i]
       /\ \A d \in DispatchersOf(variant) :
            HandledNames(d) = {response.tools[i].name : i \in 1..Len(response.tools)}

(* part_001 has answered tools/list through handleMCPRequest *)
C8_Witness ==
  /\ IsList /\ variant = "part_001" /\ request.via = "handleMCPRequest"
  /\ response.tag = "return"
  /\ Len(response.tools) = 6

(* C10: every failure leaving a dispatcher is a structured failure of the
   kind invalid-argument, method-not-found or internal-error, and a known
   tool called without an arguments mapping fails with the internal-error
   "Calculator error: <message of the TypeError>". *)
C10_FailuresAreStructured ==
  IsCall
    => /\ response.tag = "throw" =>
            /\ response.class = "McpError"
            /\ response.code \in {"InvalidRequest", "MethodNotFound",
                                  "InternalError"}
       /\ (request.name \in ToolNames /\ request.args = Undefined) =>
            /\ response.tag = "throw"
            /\ response.class = "McpError"
            /\ response.code = "InternalError"
            /\ \E f \in {"a", "b", "base", "exponent", "number"} :
                 response.message \in
                   {"Calculator error: " \o DestructureError(f).message,
                    "Calculator error: " \o ReadPropertyError(f).message}

(* the fields the descriptor of a tool lists as required *)
RequiredOf(name) ==
  LET tool == IndexTools[CHOOSE i \in 1..Len(IndexTools) :
                           IndexTools[i].name = name]
      required == tool.inputSchema.required
  IN  {required[i] : i \in 1..Len(required)}

HasArgs == request.args # Undefined

(* C11: a call of a known tool with a required argument missing or not a
   number (add with a = "5", divide with b = "0", sqrt without number) yields
   an error, never a success. *)
C11_BadArgumentsFail ==
  (IsCall /\ request.name \in ToolNames /\ HasArgs
          /\ \E f \in RequiredOf(request.name) :
               Get(request.args, f).t # "num")
    => response.tag = "throw"

(* C12: no dispatcher checks presence or type of the arguments: a known tool
   called with an arguments mapping fails exactly when it is divide and b is
   the number 0, or it is sqrt and number compares less than 0; with a field
   missing or not a number and neither of these, the call succeeds. *)
C12_OnlyPreconditionsReject ==
  (IsCall /\ request.name \in ToolNames /\ HasArgs)
    => LET b == Get(request.args, "b")
           number == ToNumber(Get(request.args, "number"))
           zero == request.name = "divide" /\ b = Num(0)
           negative == /\ request.name = "sqrt"
                       /\ number.t = "num"
                       /\ number.n < 0
       IN  IF zero \/ negative THEN response.tag = "throw"
           ELSE response.tag = "return"

(* index.js has answered sqrt {number: "-4"} with a failure, and the callTool
   of part_000 would answer add {b: 3}, a missing, with a result *)
C12_Witness ==
  /\ IsCall /\ variant = "index.js" /\ request.name = "sqrt" /\ HasArgs
  /\ Get(request.args, "number") = Str(<<"-", "4">>)
  /\ response.tag = "throw"
  /\ Part000CallTool("add", Obj([b |-> Num(3)])).tag = "return"

IsHttp == request.op = "http"

OnRoute(verb, path) ==
  IsHttp /\ request.verb = verb /\ request.path = path

(* the handler of the request returned a tool listing *)
IsListing == "tools" \in DOMAIN response

(* the body of the request is a tools/call with parameters, which
   handleMCPRequest passes to the dispatcher *)
IsHttpCall ==
  /\ request.body # Undefined
  /\ "method" \in DOMAIN request.body
  /\ request.body.method = "tools/call"
  /\ "params" \in DOMAIN request.body

(* C13: a transport adapter hands the failure of the dispatcher to the client
   unchanged: the answer of POST /mcp and POST /sse carries the kind of the
   failure and exactly its message. *)
C13_FailureSurfacesUnchanged ==
  (IsHttp /\ IsHttpCall /\ response.tag = "throw")
    => /\ reply.status # 200
       /\ reply.body.error = response.message
       /\ \E k \in DOMAIN reply.body : reply.body[k] = response.code

(* C17: once http-server.js serves, GET /sse, GET /health and GET / are
   answered: /health says "healthy", / lists the six tool names. *)
C17_HttpServerEndpoints ==
  (IsHttp /\ variant = "http-server.js" /\ request.verb = "GET"
          /\ request.path \in {"/sse", "/health", "/"})
    => /\ reply.status = 200
       /\ request.path = "/health" => reply.body.status = "healthy"
       /\ request.path = "/" => reply.body.tools = SixNames

(* the catalogs the listing paths of a variant return: the SDK list handler
   and tools/list of handleMCPRequest, which POST /mcp, POST /sse, GET /mcp
   and GET /status go through *)
CatalogsOf(v) ==
  CASE v = "index.js" -> {IndexTools}
    [] v = "http-server.js" -> {HttpServerTools}
    [] v = "part_000" ->
         {Part000SetupTools,
          Part000HandleMCPRequest([method |-> "tools/list"]).tools}
    [] v = "part_001" ->
         {Part001HandleMCPRequest([method |-> "tools/list"]).tools}

(* C18: within one process every listing path returns the same catalog,
   descriptor for descriptor. *)
C18_ListingPathsAgree ==
  IsListing
    => /\ \A tools \in CatalogsOf(variant) : response.tools = tools
       /\ IsHttp => reply.body.tools = response.tools

(* C19: every descriptor of every listing declares each of its parameters
   with type number and as required, the sqrt descriptor declares minimum 0
   for number, and every dispatcher rejects a negative sqrt input whatever
   the descriptor says. *)
C19_DescriptorsDeclareNumbers ==
  IsListing
    => /\ \A i \in 1..Len(response.tools) :
            LET tool == response.tools[i]
                properties == tool.inputSchema.properties
                required == tool.inputSchema.required
            IN  /\ \A f \in DOMAIN properties : properties[f].type = "number"
                /\ {required[j] : j \in 1..Len(required)} = DOMAIN properties
                /\ tool.name = "sqrt" =>
                     /\ "minimum" \in DOMAIN properties.number
                     /\ properties.number.minimum = 0
       /\ \A d \in DispatchersOf(variant) :
            Dispatch(d, "sqrt", Obj([number |-> Num(-1)])).tag = "throw"

McpErrorPrefixes ==
  {""} \cup {"MCP error " \o ErrorCodeNumber(code) \o ": " :
               code \in {"InvalidRequest", "MethodNotFound", "InternalError"}}

(* C20: POST /mcp, POST /sse and GET /mcp answer every request with one JSON
   response and the process keeps serving: 200 with the result when
   handleMCPRequest returns, 500 {error: <message>} when it throws, which it
   does for an unknown method ("Unknown method: <method>"), for tools/call
   without params, for an unknown tool, for a division by zero and for the
   square root of a negative number. *)
C20_RoutesAnswerOnce ==
  (IsHttp /\ <<request.verb, request.path>> \in
               {<<"POST", "/mcp">>, <<"POST", "/sse">>, <<"GET", "/mcp">>}
             \cap Routes(variant))
    => /\ proc.phase = "serving" /\ proc.exitCode = -1
       /\ IF response.tag = "return"
          THEN /\ reply.status = 200
               /\ reply.body = IF IsListing THEN [tools |-> response.tools]
                               ELSE [content |-> response.content]
          ELSE /\ response.tag = "throw"
               /\ reply.status = 500
               /\ DOMAIN reply.body = {"error"}
               /\ \E prefix \in McpErrorPrefixes :
                    reply.body.error = prefix \o response.message
       /\ (request.verb = "POST" /\ request.body # Undefined
             /\ "method" \in DOMAIN request.body
             /\ request.body.method \notin {"tools/list", "tools/call"})
            => reply = Json(500, [error |-> "Unknown method: "
                                              \o request.body.method])
       /\ (request.verb = "POST" /\ request.body # Undefined
             /\ "method" \in DOMAIN request.body
             /\ request.body.method = "tools/call"
             /\ "params" \notin DOMAIN request.body)
            => reply.status = 500
       /\ (request.verb = "POST" /\ IsHttpCall)
            => LET name == request.body.params.name
                   args == request.body.params.arguments
               IN  /\ name \notin ToolNames =>
                        /\ reply.status = 500
                        /\ \E prefix \in McpErrorPrefixes :
                             reply.body.error =
                               prefix \o "Unknown tool: " \o name
                   /\ (name = "divide" /\ args # Undefined
                         /\ Get(args, "b") = Num(0)) => reply.status = 500
                   /\ (name = "sqrt" /\ args # Undefined
                         /\ Get(args, "number") \in Numbers
                         /\ Get(args, "number").n < 0) => reply.status = 500

(* POST /sse of part_001 has answered a division by zero with 500 and the
   message of the dispatcher, and the process is still serving *)
C20_Witness ==
  /\ OnRoute("POST", "/sse") /\ variant = "part_001" /\ IsHttpCall
  /\ request.body.params.name = "divide"
  /\ request.body.params.arguments = Obj([a |-> Num(5), b |-> Num(0)])
  /\ reply = Json(500, [error |-> "Division by zero is not allowed"])
  /\ proc.phase = "serving"

(* C14: a keep-alive timer exists for a connection exactly while the
   connection is open; the close of a connection clears its timer and ends
   its response; and when the process has received the shutdown signal the
   same release has happened for every connection that was open. *)
C14_KeepAliveScopedToConnection ==
  /\ \A c \in ConnIds :
       /\ conns[c].timer <=> conns[c].state = "open"
       /\ conns[c].state = "closed" => conns[c].ended
  /\ proc.signalled =>
       \A c \in ConnIds :
         /\ ~conns[c].timer
         /\ conns[c].state # "none" => conns[c].ended

(* C15: a process that has exited on SIGINT has completed server.close()
   before, and its exit code is 0, in every variant. *)
C15_CloseBeforeExit ==
  (proc.phase = "exited" /\ proc.signalled)
    => proc.closed /\ proc.exitCode = 0

(* C16: the exit code is 0 only after SIGINT, and a process whose
   server.connect or app.listen failed terminates with a code other than 0:
   it neither goes on after logging the failure nor ends with 0. *)
C16_ExitCodes ==
  /\ proc.exitCode = 0 => proc.signalled
  /\ proc.phase # "failed"
  /\ (proc.phase = "exited" /\ ~proc.signalled) => proc.exitCode # 0

(* everything written to the response of connection c so far, in order *)
Frames(c) == conns[c].frames

(* the frames of a connection are: the headers with status 200, one
   notifications/initialized frame, one tools/list frame with the catalog,
   then keep-alive comments only *)
FrameOrder(c) ==
  conns[c].state # "none"
    => LET frames == Frames(c)
       IN  /\ Len(frames) >= 3
           /\ frames[1] = [kind |-> "head", status |-> 200]
           /\ frames[2].kind = "data"
           /\ frames[2].method = "notifications/initialized"
           /\ frames[3].kind = "data"
           /\ frames[3].method = "tools/list"
           /\ frames[3].params = [tools |-> Part001Tools]
           /\ \A i \in 4..Len(frames) :
                frames[i] = [kind |-> "comment", text |-> "keep-alive"]

(* a step leaves what was written to a connection in place and writes at
   most one more frame, and nothing after the response was ended *)
FramesGrow(c) ==
  /\ \/ Frames(c)' = Frames(c)
     \/ Len(Frames(c)') = Len(Frames(c)) + 1
          /\ SubSeq(Frames(c)', 1, Len(Frames(c))) = Frames(c)
     \/ Frames(c) = <<>> /\ conns[c].state = "none"
  /\ conns[c].ended => Frames(c)' = Frames(c)

(* C21: on every GET /sse connection of part_001 the headers (status 200)
   are written first, then exactly one notifications/initialized frame, then
   exactly one tools/list frame with the catalog, and only then keep-alive
   comments; no second status line or JSON error body is ever written, and
   what was written stays as it is. *)
C21_SseFrameOrder ==
  /\ [](\A c \in ConnIds : FrameOrder(c))
  /\ [][\A c \in ConnIds : FramesGrow(c)]_vars

(* a connection is open and two keep-alive comments followed its tools/list
   frame *)
C21_Witness ==
  \E c \in ConnIds :
    /\ conns[c].state = "open"
    /\ Len(conns[c].frames) = 5
    /\ conns[c].frames[3].method = "tools/list"
    /\ conns[c].frames[5].kind = "comment"

(* the variants whose run() connects an SDK transport and then listens *)
SdkHttpVariants == {"http-server.js", "part_000"}

(* C22: in http-server.js and part_000 app.listen is called only after
   server.connect(transport) has completed successfully: a process whose
   connect failed never binds, never listens and never answers an HTTP
   request, /health included. *)
C22_ListenAfterConnect ==
  variant \in SdkHttpVariants
    => /\ proc.phase \in {"binding", "serving"} => proc.connected
       /\ proc.listening => proc.connected
       /\ IsHttp => proc.connected
       /\ proc.phase = "failed" => ~proc.connected /\ ~proc.listening

(* http-server.js has connected, bound and answered GET /health *)
C22_Witness ==
  /\ variant = "http-server.js"
  /\ OnRoute("GET", "/health")
  /\ reply.status = 200
  /\ proc.connected /\ proc.listening

====
